---- MODULE Spec2Model ----
(***************************************************************************)
(* Model of the Coordinate value type of advent_of_code_util (lib.rs):     *)
(* is_within_bounds, get_points_between_vertices,                          *)
(* get_surrounding_non_diagonal_coordinates, get_surrounding_coordinates.  *)
(* A Coordinate is constructed (Init) and one of its methods is called     *)
(* with arbitrary arguments; the action records the arguments of the call  *)
(* and what the call produced.  The methods take &self and keep no state,  *)
(* so a second call would only revisit the states of a first one.  usize   *)
(* is scaled down to 0..USIZE_MAX, and arithmetic that leaves that range   *)
(* either panics (overflow checks on, the debug profile) or wraps          *)
(* (overflow checks off, the release profile).                             *)
(***************************************************************************)
EXTENDS Integers, Sequences, FiniteSets, TLC

\* largest value of the (scaled-down) usize
USIZE_MAX == 8
\* largest value drawn for the four arguments of is_within_bounds
MaxBound == 3

Usize == 0..USIZE_MAX
Modulus == USIZE_MAX + 1
Coordinate == [x : Usize, y : Usize]
Coord(x, y) == [x |-> x, y |-> y]

VARIABLES
    self,             \* the Coordinate the methods are called on
    overflow_checks,  \* build profile: TRUE = overflow panics, FALSE = wraps
    op,               \* the method called last ("new" after construction)
    to,               \* argument of get_points_between_vertices
    max_width,        \* arguments of the two neighbour methods
    max_height,
    min_x, max_x, min_y, max_y,   \* arguments of is_within_bounds
    result,           \* the Vec<Coordinate> returned by the last call
    within,           \* the bool returned by the last is_within_bounds
    panicked,         \* the last call panicked and returned nothing
    overflowed        \* the last call evaluated an out-of-range +/-

vars == <<self, overflow_checks, op, to, max_width, max_height,
          min_x, max_x, min_y, max_y, result, within, panicked, overflowed>>

--------------------------------------------------------------------------
(* usize arithmetic: the wrapped value and whether the exact value left    *)
(* 0..USIZE_MAX.                                                           *)
CheckedSub(a, b) == [val |-> (a - b + Modulus) % Modulus, ovf |-> a < b]
CheckedAdd(a, b) == [val |-> (a + b) % Modulus, ovf |-> a + b > USIZE_MAX]
Plain(a) == [val |-> a, ovf |-> FALSE]

(* The running state of a neighbour method: the vector built so far,       *)
(* whether the call has panicked, whether any arithmetic overflowed.       *)
EmptyVec == [vec |-> <<>>, panicked |-> FALSE, overflowed |-> FALSE]

(* Evaluate one arithmetic expression inside a call. *)
Eval(st, a, checks) ==
    IF st.panicked THEN st
    ELSE [vec |-> st.vec,
          panicked |-> a.ovf /\ checks,
          overflowed |-> st.overflowed \/ a.ovf]

(* surrounding_coordinates.push(Coordinate { x: ax, y: ay }) *)
Push(st, ax, ay, checks) ==
    LET s1 == Eval(Eval(st, ax, checks), ay, checks)
    IN  IF s1.panicked THEN s1
        ELSE [s1 EXCEPT !.vec = Append(@, Coord(ax.val, ay.val))]

--------------------------------------------------------------------------
(* is_within_bounds *)
is_within_bounds_strict(slf, mnx, mxx, mny, mxy) ==
    slf.x >= mnx /\ slf.x < mxx /\ slf.y >= mny /\ slf.y < mxy

is_within_bounds(slf, mnx, mxx, mny, mxy) ==
    slf.x >= mnx /\ slf.x <= mxx /\ slf.y >= mny /\ slf.y <= mxy

--------------------------------------------------------------------------
(* get_points_between_vertices *)
AssertAlignedBoth(slf, t) == slf.x = t.x /\ slf.y = t.y

AssertAligned(slf, t) == slf.x = t.x \/ slf.y = t.y

RangeExclusive(lo, hi) ==
    IF hi <= lo THEN <<>> ELSE [i \in 1..(hi - lo) |-> lo + i - 1]

(* lo..=hi, empty when lo > hi *)
RangeInclusive(lo, hi) ==
    IF hi < lo THEN <<>> ELSE [i \in 1..(hi - lo + 1) |-> lo + i - 1]

(* .map(|y| Coordinate { x: self.x, y }).collect() *)
MapColumn(r, slf) == [i \in DOMAIN r |-> Coord(slf.x, r[i])]
(* .map(|x| Coordinate { x, y: self.y }).collect() *)
MapRow(r, slf) == [i \in DOMAIN r |-> Coord(r[i], slf.y)]

Returned(v) == [vec |-> v, panicked |-> FALSE]
Panic == [vec |-> <<>>, panicked |-> TRUE]

get_points_between_vertices_unswapped(slf, t) ==
    IF ~AssertAligned(slf, t) THEN Panic
    ELSE IF slf.x = t.x
         THEN Returned(MapColumn(RangeInclusive(slf.y, t.y), slf))
         ELSE Returned(MapRow(RangeInclusive(slf.x, t.x), slf))

get_points_between_vertices(slf, t) ==
    IF ~AssertAligned(slf, t) THEN Panic
    ELSE IF slf.x = t.x
         THEN IF slf.y < t.y
              THEN Returned(MapColumn(RangeInclusive(slf.y, t.y), slf))
              ELSE Returned(MapColumn(RangeInclusive(t.y, slf.y), slf))
         ELSE IF slf.x < t.x
              THEN Returned(MapRow(RangeInclusive(slf.x, t.x), slf))
              ELSE Returned(MapRow(RangeInclusive(t.x, slf.x), slf))

--------------------------------------------------------------------------
(* get_surrounding_non_diagonal_coordinates, one definition per if-block *)
NonDiagWestUnguarded(st, slf, checks) ==
    Push(st, CheckedSub(slf.x, 1), Plain(slf.y), checks)

NonDiagWest(st, slf, checks) ==
    IF slf.x > 0
    THEN Push(st, CheckedSub(slf.x, 1), Plain(slf.y), checks)
    ELSE st

NonDiagNorth(st, slf, checks) ==
    IF slf.y > 0
    THEN Push(st, Plain(slf.x), CheckedSub(slf.y, 1), checks)
    ELSE st

NonDiagEastOffByOne(st, slf, mw, checks) ==
    IF slf.x < mw
    THEN Push(st, CheckedAdd(slf.x, 1), Plain(slf.y), checks)
    ELSE st

NonDiagEast(st, slf, mw, checks) ==
    LET lim == CheckedSub(mw, 1)
        s1  == Eval(st, lim, checks)
    IN  IF ~s1.panicked /\ slf.x < lim.val
        THEN Push(s1, CheckedAdd(slf.x, 1), Plain(slf.y), checks)
        ELSE s1

NonDiagSouthFirst(st, slf, mh, checks) ==
    LET lim == CheckedSub(mh, 1)
        s1  == Eval(st, lim, checks)
    IN  IF ~s1.panicked /\ slf.y < lim.val
        THEN LET s2 == Push([s1 EXCEPT !.vec = <<>>],
                            Plain(slf.x), CheckedAdd(slf.y, 1), checks)
             IN  IF s2.panicked THEN s2
                 ELSE [s2 EXCEPT !.vec = @ \o s1.vec]
        ELSE s1

NonDiagSouth(st, slf, mh, checks) ==
    LET lim == CheckedSub(mh, 1)
        s1  == Eval(st, lim, checks)
    IN  IF ~s1.panicked /\ slf.y < lim.val
        THEN Push(s1, Plain(slf.x), CheckedAdd(slf.y, 1), checks)
        ELSE s1

get_surrounding_non_diagonal_coordinates(slf, mw, mh, checks) ==
    NonDiagSouth(
        NonDiagEast(
            NonDiagNorth(
                NonDiagWest(EmptyVec, slf, checks),
                slf, checks),
            slf, mw, checks),
        slf, mh, checks)

--------------------------------------------------------------------------
(* get_surrounding_coordinates, one definition per if-block *)
SurroundWest(st, slf, checks) ==
    IF slf.x > 0
    THEN LET s1 == Push(st, CheckedSub(slf.x, 1), Plain(slf.y), checks)
         IN  IF slf.y > 0
             THEN Push(s1, CheckedSub(slf.x, 1), CheckedSub(slf.y, 1), checks)
             ELSE s1
    ELSE st

SurroundNorthNoEastGate(st, slf, mw, checks) ==
    IF slf.y > 0
    THEN LET s1 == Push(st, Plain(slf.x), CheckedSub(slf.y, 1), checks)
         IN  Push(s1, CheckedAdd(slf.x, 1), CheckedSub(slf.y, 1), checks)
    ELSE st

SurroundNorth(st, slf, mw, checks) ==
    IF slf.y > 0
    THEN LET s1  == Push(st, Plain(slf.x), CheckedSub(slf.y, 1), checks)
             lim == CheckedSub(mw, 1)
             s2  == Eval(s1, lim, checks)
         IN  IF ~s2.panicked /\ slf.x < lim.val
             THEN Push(s2, CheckedAdd(slf.x, 1), CheckedSub(slf.y, 1), checks)
             ELSE s2
    ELSE st

SurroundEastNoDiagonal(st, slf, mw, mh, checks) ==
    LET lim == CheckedSub(mw, 1)
        s1  == Eval(st, lim, checks)
    IN  IF ~s1.panicked /\ slf.x < lim.val
        THEN Push(s1, CheckedAdd(slf.x, 1), Plain(slf.y), checks)
        ELSE s1

SurroundEast(st, slf, mw, mh, checks) ==
    LET lim == CheckedSub(mw, 1)
        s1  == Eval(st, lim, checks)
    IN  IF ~s1.panicked /\ slf.x < lim.val
        THEN LET s2   == Push(s1, CheckedAdd(slf.x, 1), Plain(slf.y), checks)
                 limh == CheckedSub(mh, 1)
                 s3   == Eval(s2, limh, checks)
             IN  IF ~s3.panicked /\ slf.y < limh.val
                 THEN Push(s3, CheckedAdd(slf.x, 1), CheckedAdd(slf.y, 1),
                           checks)
                 ELSE s3
        ELSE s1

SurroundSouthDiagonalFirst(st, slf, mh, checks) ==
    LET lim == CheckedSub(mh, 1)
        s1  == Eval(st, lim, checks)
    IN  IF ~s1.panicked /\ slf.y < lim.val
        THEN LET s2 == IF slf.x > 0
                       THEN Push(s1, CheckedSub(slf.x, 1),
                                 CheckedAdd(slf.y, 1), checks)
                       ELSE s1
             IN  Push(s2, Plain(slf.x), CheckedAdd(slf.y, 1), checks)
        ELSE s1

SurroundSouth(st, slf, mh, checks) ==
    LET lim == CheckedSub(mh, 1)
        s1  == Eval(st, lim, checks)
    IN  IF ~s1.panicked /\ slf.y < lim.val
        THEN LET s2 == Push(s1, Plain(slf.x), CheckedAdd(slf.y, 1), checks)
             IN  IF slf.x > 0
                 THEN Push(s2, CheckedSub(slf.x, 1), CheckedAdd(slf.y, 1),
                           checks)
                 ELSE s2
        ELSE s1

get_surrounding_coordinates(slf, mw, mh, checks) ==
    SurroundSouth(
        SurroundEast(
            SurroundNorth(
                SurroundWest(EmptyVec, slf, checks),
                slf, mw, checks),
            slf, mw, mh, checks),
        slf, mh, checks)

--------------------------------------------------------------------------
(* The state machine *)
Origin == Coord(0, 0)

Init ==
    /\ self \in Coordinate
    /\ overflow_checks \in BOOLEAN
    /\ op = "new"
    /\ to = Origin
    /\ max_width = 0 /\ max_height = 0
    /\ min_x = 0 /\ max_x = 0 /\ min_y = 0 /\ max_y = 0
    /\ result = <<>>
    /\ within = FALSE
    /\ panicked = FALSE
    /\ overflowed = FALSE

IsWithinBounds ==
    \E mnx \in 0..MaxBound, mxx \in 0..MaxBound,
       mny \in 0..MaxBound, mxy \in 0..MaxBound :
        /\ op = "new"
        /\ op' = "is_within_bounds"
        /\ min_x' = mnx /\ max_x' = mxx /\ min_y' = mny /\ max_y' = mxy
        /\ within' = is_within_bounds(self, mnx, mxx, mny, mxy)
        /\ to' = Origin /\ max_width' = 0 /\ max_height' = 0
        /\ result' = <<>> /\ panicked' = FALSE /\ overflowed' = FALSE
        /\ UNCHANGED <<self, overflow_checks>>

GetPointsBetweenVertices ==
    \E t \in Coordinate :
        LET r == get_points_between_vertices(self, t)
        IN  /\ op = "new"
            /\ op' = "get_points_between_vertices"
            /\ to' = t
            /\ result' = r.vec
            /\ panicked' = r.panicked
            /\ overflowed' = FALSE
            /\ within' = FALSE
            /\ max_width' = 0 /\ max_height' = 0
            /\ min_x' = 0 /\ max_x' = 0 /\ min_y' = 0 /\ max_y' = 0
            /\ UNCHANGED <<self, overflow_checks>>

GetSurroundingNonDiagonalCoordinates ==
    \E mw \in Usize, mh \in Usize :
        LET r == get_surrounding_non_diagonal_coordinates(
                     self, mw, mh, overflow_checks)
        IN  /\ op = "new"
            /\ op' = "get_surrounding_non_diagonal_coordinates"
            /\ max_width' = mw /\ max_height' = mh
            /\ result' = IF r.panicked THEN <<>> ELSE r.vec
            /\ panicked' = r.panicked
            /\ overflowed' = r.overflowed
            /\ within' = FALSE
            /\ to' = Origin
            /\ min_x' = 0 /\ max_x' = 0 /\ min_y' = 0 /\ max_y' = 0
            /\ UNCHANGED <<self, overflow_checks>>

GetSurroundingCoordinates ==
    \E mw \in Usize, mh \in Usize :
        LET r == get_surrounding_coordinates(self, mw, mh, overflow_checks)
        IN  /\ op = "new"
            /\ op' = "get_surrounding_coordinates"
            /\ max_width' = mw /\ max_height' = mh
            /\ result' = IF r.panicked THEN <<>> ELSE r.vec
            /\ panicked' = r.panicked
            /\ overflowed' = r.overflowed
            /\ within' = FALSE
            /\ to' = Origin
            /\ min_x' = 0 /\ max_x' = 0 /\ min_y' = 0 /\ max_y' = 0
            /\ UNCHANGED <<self, overflow_checks>>

Next ==
    \/ IsWithinBounds
    \/ GetPointsBetweenVertices
    \/ GetSurroundingNonDiagonalCoordinates
    \/ GetSurroundingCoordinates

Spec == Init /\ [][Next]_vars

--------------------------------------------------------------------------
(* Vocabulary of the properties *)
Min(a, b) == IF a < b THEN a ELSE b
Max(a, b) == IF a < b THEN b ELSE a
Range(s) == {s[i] : i \in DOMAIN s}
NoDuplicates(s) == \A i, j \in DOMAIN s : s[i] = s[j] => i = j
Opt(present, x, y) == IF present THEN <<Coord(x, y)>> ELSE <<>>

CalledSegment == op = "get_points_between_vertices"
CalledNonDiag == op = "get_surrounding_non_diagonal_coordinates"
CalledSurround == op = "get_surrounding_coordinates"
CalledBounds == op = "is_within_bounds"

Aligned == self.x = to.x \/ self.y = to.y
InGrid(c) == c.x <= max_width - 1 /\ c.y <= max_height - 1
SelfInGrid == InGrid(self)

HasWest == self.x > 0
HasNorth == self.y > 0
HasEast == self.x < max_width - 1
HasSouth == self.y < max_height - 1
EdgeCount ==
    (IF self.x = 0 THEN 1 ELSE 0) + (IF self.y = 0 THEN 1 ELSE 0)
    + (IF self.x = max_width - 1 THEN 1 ELSE 0)
    + (IF self.y = max_height - 1 THEN 1 ELSE 0)

(* all points of the segment between a and b, ascending *)
SegmentPoints(a, b) ==
    IF a.x = b.x
    THEN [i \in 1..(Max(a.y, b.y) - Min(a.y, b.y) + 1) |->
              Coord(a.x, Min(a.y, b.y) + i - 1)]
    ELSE [i \in 1..(Max(a.x, b.x) - Min(a.x, b.x) + 1) |->
              Coord(Min(a.x, b.x) + i - 1, a.y)]

Abs(n) == IF n < 0 THEN -n ELSE n
Chebyshev(a, b) == Max(Abs(a.x - b.x), Abs(a.y - b.y))
GridAtLeast(n) == max_width >= n /\ max_height >= n

--------------------------------------------------------------------------
\* C1: for axis-aligned self and to, get_points_between_vertices returns
\* exactly all points of the segment, both endpoints included, ascending
\* along the varying axis whichever endpoint is larger; the length is the
\* absolute coordinate difference plus one, and self = to gives <<self>>.
C1_SegmentExact ==
    (CalledSegment /\ Aligned) =>
        /\ ~panicked
        /\ result = SegmentPoints(self, to)
        /\ Len(result) = Abs(self.x - to.x) + Abs(self.y - to.y) + 1
        /\ \A i \in 1..(Len(result) - 1) :
               IF self.x = to.x
               THEN result[i + 1] = Coord(self.x, result[i].y + 1)
               ELSE result[i + 1] = Coord(result[i].x + 1, self.y)
        /\ Len(result) >= 1
        /\ Range(<<result[1], result[Len(result)]>>) = {self, to}
        /\ (self = to => result = <<self>>)

C1_Witness ==
    /\ CalledSegment
    /\ self = Coord(6, 3) /\ to = Coord(2, 3)
    /\ result = <<Coord(2, 3), Coord(3, 3), Coord(4, 3), Coord(5, 3),
                  Coord(6, 3)>>

\* C2 as stated: for the corner (0,0) of a grid at least 2x2,
\* get_surrounding_coordinates returns [(1,0),(0,1),(1,1)]: east, south,
\* southeast.
C2_Original ==
    (CalledSurround /\ self = Origin /\ GridAtLeast(2)) =>
        result = <<Coord(1, 0), Coord(0, 1), Coord(1, 1)>>

\* C2 amended: for the corner (0,0) of a grid at least 2x2,
\* get_surrounding_coordinates returns [(1,0),(1,1),(0,1)]: east, then
\* southeast, then south.
C2_CornerOrder ==
    (CalledSurround /\ self = Origin /\ GridAtLeast(2)) =>
        /\ ~panicked
        /\ result = <<Coord(1, 0), Coord(1, 1), Coord(0, 1)>>

C2_Witness ==
    /\ CalledSurround /\ self = Origin
    /\ max_width = 5 /\ max_height = 5
    /\ Len(result) = 3 /\ result[2] = Coord(1, 1)

\* C3 as stated: for every point and every grid at least 1x1, every point
\* returned by get_surrounding_non_diagonal_coordinates lies in the grid.
C3_Original ==
    (CalledNonDiag /\ GridAtLeast(1)) =>
        \A c \in Range(result) : InGrid(c)

\* C3 amended: for every point inside a grid at least 1x1, every point
\* returned by get_surrounding_non_diagonal_coordinates lies in the grid.
C3_NeighboursInGrid ==
    (CalledNonDiag /\ GridAtLeast(1) /\ SelfInGrid) =>
        /\ ~panicked
        /\ \A c \in Range(result) : InGrid(c)

C3_Witness ==
    /\ CalledNonDiag
    /\ self = Coord(2, 1) /\ max_width = 3 /\ max_height = 3
    /\ result = <<Coord(1, 1), Coord(2, 0), Coord(2, 2)>>

\* C4: for every point and a grid at least 2x2, get_surrounding_coordinates
\* emits west, northwest, north, northeast, east, southeast, south,
\* southwest in that order, leaving out the absent ones: west iff x > 0,
\* north iff y > 0, east iff x < max_width-1, south iff y < max_height-1,
\* and a diagonal iff both of its orthogonal directions are emitted.
C4_EmissionOrder ==
    (CalledSurround /\ GridAtLeast(2)) =>
        /\ ~panicked
        /\ result =
               Opt(HasWest, self.x - 1, self.y)
            \o Opt(HasWest /\ HasNorth, self.x - 1, self.y - 1)
            \o Opt(HasNorth, self.x, self.y - 1)
            \o Opt(HasNorth /\ HasEast, self.x + 1, self.y - 1)
            \o Opt(HasEast, self.x + 1, self.y)
            \o Opt(HasEast /\ HasSouth, self.x + 1, self.y + 1)
            \o Opt(HasSouth, self.x, self.y + 1)
            \o Opt(HasSouth /\ HasWest, self.x - 1, self.y + 1)

C4_Witness ==
    /\ CalledSurround
    /\ self = Coord(1, 1) /\ max_width = 3 /\ max_height = 3
    /\ result = <<Coord(0, 1), Coord(0, 0), Coord(1, 0), Coord(2, 0),
                  Coord(2, 1), Coord(2, 2), Coord(1, 2), Coord(0, 2)>>

\* C5: for every point inside a grid at least 2x2,
\* get_surrounding_non_diagonal_coordinates returns [west, north, east,
\* south] with west left out iff x = 0, north iff y = 0, east iff
\* x = max_width-1, south iff y = max_height-1; its length is 4 minus the
\* number of grid edges the point is on, and (0,0) gives [(1,0),(0,1)].
C5_OrthogonalNeighbours ==
    (CalledNonDiag /\ GridAtLeast(2) /\ SelfInGrid) =>
        /\ ~panicked
        /\ result =
               Opt(self.x # 0, self.x - 1, self.y)
            \o Opt(self.y # 0, self.x, self.y - 1)
            \o Opt(self.x # max_width - 1, self.x + 1, self.y)
            \o Opt(self.y # max_height - 1, self.x, self.y + 1)
        /\ Len(result) = 4 - EdgeCount
        /\ Len(result) \in {2, 3, 4}
        /\ (self = Origin => result = <<Coord(1, 0), Coord(0, 1)>>)

C5_Witness ==
    /\ CalledNonDiag
    /\ self = Coord(0, 2) /\ max_width = 4 /\ max_height = 4
    /\ result = <<Coord(0, 1), Coord(1, 2), Coord(0, 3)>>

\* C6: get_points_between_vertices panics, returning nothing, exactly when
\* self.x # to.x and self.y # to.y; it never panics on an aligned pair.
C6_PanicsIffNotAligned ==
    CalledSegment =>
        /\ panicked <=> (self.x # to.x /\ self.y # to.y)
        /\ panicked => result = <<>>
        /\ ~panicked => Len(result) >= 1

C6_Witness ==
    /\ CalledSegment
    /\ self = Coord(1, 2) /\ to = Coord(3, 4)
    /\ panicked

\* C7: for axis-aligned a and b, get_points_between_vertices(a, b) and
\* get_points_between_vertices(b, a) return the same points in the same
\* order; (2,5),(2,8) gives [(2,5),(2,6),(2,7),(2,8)] both ways.
C7_SegmentSymmetric ==
    (CalledSegment /\ Aligned) =>
        /\ get_points_between_vertices(to, self)
               = [vec |-> result, panicked |-> panicked]
        /\ (  {self, to} = {Coord(2, 5), Coord(2, 8)}
           => result = <<Coord(2, 5), Coord(2, 6), Coord(2, 7), Coord(2, 8)>>)

C7_Witness ==
    /\ CalledSegment
    /\ self = Coord(2, 8) /\ to = Coord(2, 5)
    /\ Len(result) = 4
    /\ get_points_between_vertices(to, self).vec = result

\* C8 as stated: for every choice of min_x, max_x, min_y, max_y,
\* is_within_bounds is true for each of the four corner points.
IsCorner == self.x \in {min_x, max_x} /\ self.y \in {min_y, max_y}

C8_Original ==
    (CalledBounds /\ IsCorner) => within

\* C8 amended: for every choice of bounds with min_x <= max_x and
\* min_y <= max_y, is_within_bounds is true for the four corner points;
\* for every choice of bounds it is false for a point with one coordinate
\* exactly one unit outside its range, and in general it is true iff
\* min_x <= x <= max_x and min_y <= y <= max_y, both bounds inclusive.
OneUnitOutside ==
    \/ self.x = min_x - 1 \/ self.x = max_x + 1
    \/ self.y = min_y - 1 \/ self.y = max_y + 1

C8_BoundsInclusive ==
    CalledBounds =>
        /\ (min_x <= max_x /\ min_y <= max_y /\ IsCorner) => within
        /\ OneUnitOutside => ~within
        /\ within <=> /\ self.x \in min_x..max_x
                      /\ self.y \in min_y..max_y

C8_Witness ==
    /\ CalledBounds
    /\ min_x = 1 /\ max_x = 3 /\ min_y = 0 /\ max_y = 2
    /\ self = Coord(3, 2)
    /\ within

\* C9: for every point inside a grid at least 2x2, the points returned by
\* get_surrounding_coordinates are, as a set, exactly the grid cells at
\* Chebyshev distance 1 from the point, without duplicates and without
\* the point itself; the length is 3 at a corner, 5 on an edge, 8 inside,
\* and (2,2) in a 5x5 grid gives 8 points, (1,3) among them.
C9_ChebyshevNeighbours ==
    (CalledSurround /\ GridAtLeast(2) /\ SelfInGrid) =>
        /\ ~panicked
        /\ Range(result)
               = {c \in Coordinate : InGrid(c) /\ Chebyshev(c, self) = 1}
        /\ NoDuplicates(result)
        /\ self \notin Range(result)
        /\ Len(result) = CASE EdgeCount = 0 -> 8
                           [] EdgeCount = 1 -> 5
                           [] OTHER -> 3
        /\ (  (self = Coord(2, 2) /\ max_width = 5 /\ max_height = 5)
           => (Len(result) = 8 /\ Coord(1, 3) \in Range(result)))

C9_Witness ==
    /\ CalledSurround
    /\ self = Coord(2, 2) /\ max_width = 5 /\ max_height = 5
    /\ Len(result) = 8 /\ result[8] = Coord(1, 3)

\* C10: for every usize point and every grid at least 1x1, neither neighbour
\* method evaluates a subtraction that goes below 0 or an addition that
\* goes above the largest usize, so neither panics nor wraps around.
C10_NoOverflow ==
    ((CalledNonDiag \/ CalledSurround) /\ GridAtLeast(1)) =>
        /\ ~overflowed
        /\ ~panicked
        /\ \A c \in Range(result) : Chebyshev(c, self) = 1

C10_Witness ==
    /\ CalledNonDiag
    /\ self = Coord(0, USIZE_MAX)
    /\ max_width = 1 /\ max_height = USIZE_MAX
    /\ ~overflowed
    /\ result = <<Coord(0, USIZE_MAX - 1)>>

====
